---- MODULE Spec2Model ----
(***************************************************************************)
(* Model of the resilience layer of the wallet API server:                 *)
(* RetryUtility.createCircuitBreaker and RetryUtility.retry                *)
(* (src/unnamed/part_002, required by the services as utils/retry).        *)
(*                                                                         *)
(* Spec      : one circuit breaker shared by concurrent callers.  A call   *)
(*             of the guarded function runs in two atomic pieces, split at *)
(*             its only suspension point, `await operation(...args)`.      *)
(* SpecRetry : one retry() call over an operation whose outcome at each    *)
(*             invocation is chosen by the environment.                    *)
(***************************************************************************)
EXTENDS Integers, Sequences, FiniteSets, Bags, TLC

VARIABLES
    \* ---- circuit breaker (closure state of createCircuitBreaker) ----
    config,           \* { failureThreshold, resetTimeout, monitoringWindow }
    state,            \* 'CLOSED' | 'OPEN' | 'HALF_OPEN'
    failures,         \* let failures
    lastFailureTime,  \* let lastFailureTime (null until the first failure)
    successes,        \* let successes
    clock,            \* Date.now()
    calls,            \* the calls of the guarded function that are suspended
                      \* at `await operation(...)`: a bag of their locals
    invocations,      \* how many times the wrapped operation was invoked
    nCalls,           \* how many calls of the guarded function were made
    nFailed,          \* how many invocations of the operation have failed
    streak,           \* failed invocations since the last successful one
    windowResets,     \* how many calls took the monitoring-window branch
    last,             \* what the latest step did, as its caller observes it,
                      \* and the state the breaker was in before it
    logged,           \* the logger calls of the latest step of a call
    openedAt,         \* Date.now() when the state last became 'OPEN', while
                      \* it is 'OPEN' (NULL otherwise)
    recovered         \* the wrapped operation has stopped failing for good

VARIABLES
    \* ---- one call of retry(operation, options) ----
    rconfig,          \* const config = { ...defaultOptions, ...options }
    rpc,              \* where the call is: "idle" (not made), "loop" (at the
                      \* head of the for loop), "await" (in operation()),
                      \* "sleep" (in sleep(actualDelay)), "returned", "threw"
    attempt,          \* let attempt
    delay,            \* let delay
    lastError,        \* let lastError
    opCalls,          \* how many times operation() was invoked
    nWaits,           \* how many times sleep() was awaited
    lastWait,         \* the actualDelay of the latest sleep(): the parts
                      \* of 1/JitterUnit ms it lies between
    first,            \* how the first invocation of the operation ended
    latest,           \* the error of the latest failed invocation
    raised,           \* the errors the operation has failed with so far
    resolved,         \* how many invocations of the operation succeeded
    settled,          \* how many invocations of the operation have settled
    slept,            \* how many sleeps are over
    thrown            \* the error retry() threw

VARIABLES
    \* ---- one call of isRetryable(error) ----
    subject,          \* the error passed to isRetryable
    verdict,          \* "none" until it returns, then "true" or "false"
    errorInfo         \* what logger.interpretGoogleApiError(error) returned
                      \* for the same error: its type and retryable fields

VARIABLES
    \* ---- retry() awaiting the guarded function ----
    awaited           \* how the promise of the guarded function has settled
                      \* while retry() has not resumed from its await yet

VARIABLES
    \* ---- one call of calculateDelay(baseDelay, config) ----
    argDelay,         \* the baseDelay passed
    argJitter,        \* config.jitter
    calculated,       \* whether the call has returned
    actualDelay       \* what it returned: the parts of 1/JitterUnit ms it
                      \* lies between (exactly 0 before)

bvars == <<config, state, failures, lastFailureTime, successes, clock, calls,
           invocations, nCalls, nFailed, streak, windowResets, last, logged,
           openedAt, recovered>>

rvars == <<rconfig, rpc, attempt, delay, lastError, opCalls, nWaits, lastWait,
           first, latest, raised, resolved, settled, slept, thrown>>

cvars == <<subject, verdict, errorInfo, argDelay, argJitter, calculated,
           actualDelay>>

vars == <<bvars, rvars, cvars, awaited>>

----------------------------------------------------------------------------
(* Bounds of the model. *)

MaxThreshold == 2      \* failureThreshold ranges over 1..MaxThreshold
MaxResetTimeout == 2   \* resetTimeout ranges over 1..MaxResetTimeout (ms)
MaxWindow == 3         \* monitoringWindow ranges over 1..MaxWindow (ms)
MaxTime == 5           \* Date.now() ranges over 1..MaxTime
MaxCalls == 5          \* calls of the guarded function per behaviour
MaxInflight == 2       \* callers that may be suspended in the operation at once
MaxAttempts == 3       \* options.maxAttempts ranges over 0..MaxAttempts
MaxBaseDelay == 2000   \* calculateDelay's baseDelay ranges over 0..MaxBaseDelay
MaxBackoff == 2        \* options.backoffFactor ranges over 1..MaxBackoff

----------------------------------------------------------------------------
(* Circuit breaker: createCircuitBreaker, part_002 lines 212-282. *)

\* `let lastFailureTime = null`.  null is falsy, as is the number 0 that
\* Date.now() never returns; both are written NULL.
NULL == 0

\* Recovery threshold of the half-open state: `if (successes >= 2)`.
RecoveryThreshold == 2

Configs == [failureThreshold : 1..MaxThreshold,
            resetTimeout     : 1..MaxResetTimeout,
            monitoringWindow : 1..MaxWindow]

\* A suspended call: its local `now`, and the state in which it was let
\* through to the operation.
Suspended(now, st) == [now |-> now, admitted |-> st]

\* The mutable closure variables as one value.
Breaker == [state |-> state, failures |-> failures,
            lastFailureTime |-> lastFailureTime, successes |-> successes]

\* Elapsed with the comparison written `>=`.
ElapsedAtLeast(b, now, limit) ==
    b.lastFailureTime # NULL /\ (now - b.lastFailureTime) >= limit

\* Elapsed that never holds.
ElapsedNever(b, now, limit) == FALSE

\* `lastFailureTime && (now - lastFailureTime) > limit`
Elapsed(b, now, limit) ==
    b.lastFailureTime # NULL /\ (now - b.lastFailureTime) > limit

\* Lines 228-233: reset failure count if monitoring window has passed.
WindowExpired(b, now) == Elapsed(b, now, config.monitoringWindow)

\* WindowReset without `state = 'CLOSED'`.
WindowResetKeepsState(b, now) ==
    IF WindowExpired(b, now)
    THEN [b EXCEPT !.failures = 0, !.successes = 0]
    ELSE b

\* WindowReset without `successes = 0`.
WindowResetKeepsSuccesses(b, now) ==
    IF WindowExpired(b, now)
    THEN [b EXCEPT !.failures = 0, !.state = "CLOSED"]
    ELSE b

WindowReset(b, now) ==
    IF WindowExpired(b, now)
    THEN [b EXCEPT !.failures = 0, !.successes = 0, !.state = "CLOSED"]
    ELSE b

\* Lines 236-247: the OPEN check.  TRUE when the call is thrown out with
\* 'Circuit breaker is OPEN - operation temporarily disabled'.
Rejects(b, now) ==
    b.state = "OPEN" /\ ~Elapsed(b, now, config.resetTimeout)

HalfOpen(b, now) ==
    IF b.state = "OPEN" /\ Elapsed(b, now, config.resetTimeout)
    THEN [b EXCEPT !.state = "HALF_OPEN", !.successes = 0]
    ELSE b

\* OnSuccess that also clears the failure count of a CLOSED breaker.
OnSuccessResets(b) ==
    IF b.state = "HALF_OPEN"
    THEN IF b.successes + 1 >= RecoveryThreshold
         THEN [b EXCEPT !.successes = b.successes + 1,
                        !.state = "CLOSED", !.failures = 0]
         ELSE [b EXCEPT !.successes = b.successes + 1]
    ELSE [b EXCEPT !.failures = 0]

\* OnSuccess that closes on the first half-open success.
OnSuccessClosesAtOnce(b) ==
    IF b.state = "HALF_OPEN"
    THEN [b EXCEPT !.successes = b.successes + 1,
                   !.state = "CLOSED", !.failures = 0]
    ELSE b

\* OnSuccess that closes without `failures = 0`.
OnSuccessKeepsCount(b) ==
    IF b.state = "HALF_OPEN"
    THEN IF b.successes + 1 >= RecoveryThreshold
         THEN [b EXCEPT !.successes = b.successes + 1, !.state = "CLOSED"]
         ELSE [b EXCEPT !.successes = b.successes + 1]
    ELSE b

\* Lines 252-262: the operation resolved.
OnSuccess(b) ==
    IF b.state = "HALF_OPEN"
    THEN IF b.successes + 1 >= RecoveryThreshold
         THEN [b EXCEPT !.successes = b.successes + 1,
                        !.state = "CLOSED", !.failures = 0]
         ELSE [b EXCEPT !.successes = b.successes + 1]
    ELSE b

\* Opens with the threshold compared by `>`.
OpensAboveThreshold(st, f) ==
    st = "HALF_OPEN" \/ f > config.failureThreshold

\* Lines 266-277: the operation rejected; `now` is the caller's local.
Opens(st, f) == st = "HALF_OPEN" \/ f >= config.failureThreshold

\* OnFailure that records the time only when a CLOSED breaker fails.
OnFailureKeepsTime(b, now) ==
    [b EXCEPT !.failures = b.failures + 1,
              !.lastFailureTime = IF b.state = "HALF_OPEN"
                                  THEN b.lastFailureTime ELSE now,
              !.state = IF b.state = "HALF_OPEN"
                           \/ b.failures + 1 >= config.failureThreshold
                        THEN "OPEN" ELSE b.state]

\* OnFailure without `lastFailureTime = now`.
OnFailureNoTime(b, now) ==
    [b EXCEPT !.failures = b.failures + 1,
              !.state = IF Opens(b.state, b.failures + 1)
                        THEN "OPEN" ELSE b.state]

\* OnFailure that writes back the count 1 whenever the breaker is not
\* CLOSED, as if the count had been read before any other call failed.
OnFailureStaleCount(b, now) ==
    [b EXCEPT !.failures = IF b.state = "CLOSED" THEN b.failures + 1 ELSE 1,
              !.lastFailureTime = now,
              !.state = IF Opens(b.state, b.failures + 1)
                        THEN "OPEN" ELSE b.state]

OnFailure(b, now) ==
    [b EXCEPT !.failures = b.failures + 1,
              !.lastFailureTime = now,
              !.state = IF Opens(b.state, b.failures + 1)
                        THEN "OPEN" ELSE b.state]

\* A call logger.<level>(message, meta).
Log(level, message, meta) ==
    [level |-> level, message |-> message, meta |-> meta]

\* Lines 240-243.
HalfOpenLog(b) ==
    Log("info", "Circuit Breaker Half-Open",
        [operation |-> "anonymous", failures |-> b.failures])

\* Lines 258-260.
ClosedLog ==
    Log("info", "Circuit Breaker Closed", [operation |-> "anonymous"])

\* Lines 272-276.
OpenedLog(b) ==
    Log("error", "Circuit Breaker Opened",
        [operation |-> "anonymous", failures |-> b.failures,
         threshold |-> config.failureThreshold])

\* The time at which the breaker, now in state st, became OPEN.
OpenedSince(st) ==
    IF st # "OPEN" THEN NULL
    ELSE IF state = "OPEN" THEN openedAt
    ELSE clock

Install(b) ==
    /\ state' = b.state
    /\ failures' = b.failures
    /\ lastFailureTime' = b.lastFailureTime
    /\ successes' = b.successes

\* The closure variables right after createCircuitBreaker(operation, options).
NewBreaker ==
    /\ state = "CLOSED"
    /\ failures = 0
    /\ lastFailureTime = NULL
    /\ successes = 0
    /\ clock = 1
    /\ calls = EmptyBag
    /\ invocations = 0
    /\ nCalls = 0
    /\ nFailed = 0
    /\ streak = 0
    /\ windowResets = 0
    /\ last = [kind |-> "none", error |-> "none", from |-> "CLOSED"]
    /\ logged = <<>>
    /\ openedAt = NULL
    /\ recovered = FALSE

InitBreaker == config \in Configs /\ NewBreaker

\* Time passes between two steps of the event loop.
Tick ==
    /\ clock < MaxTime
    /\ clock' = clock + 1
    /\ UNCHANGED <<config, state, failures, lastFailureTime, successes, calls,
                   invocations, nCalls, nFailed, streak, windowResets, last,
                   logged, openedAt, recovered>>
    /\ UNCHANGED <<rvars, cvars, awaited>>

\* Lines 225-250: a caller calls the guarded function.  Everything up to the
\* `await` runs without interruption: the call is either thrown out with the
\* circuit-open error or suspended in the operation.
Admission ==
    /\ BagCardinality(calls) < MaxInflight
    /\ LET now == clock
           b1  == WindowReset(Breaker, now)
           b2  == HalfOpen(b1, now)
       IN  IF Rejects(b1, now)
           THEN /\ Install(b1)
                /\ last' = [kind |-> "rejected", error |-> "circuit_open",
                            from |-> state]
                /\ logged' = <<>>
                /\ openedAt' = OpenedSince(b1.state)
                /\ UNCHANGED calls
           ELSE /\ Install(b2)
                /\ logged' = IF b1.state = "OPEN"
                             THEN <<HalfOpenLog(b2)>> ELSE <<>>
                /\ openedAt' = OpenedSince(b2.state)
                /\ calls' = calls (+) SetToBag({Suspended(now, b2.state)})
                /\ last' = [kind |-> "invoked", error |-> "none",
                            from |-> state]
    /\ UNCHANGED <<config, clock, nFailed, streak, recovered>>

\* The same, with the calls, the invocations of the operation and the
\* monitoring-window resets counted.
CallStartPart ==
    /\ nCalls < MaxCalls
    /\ Admission
    /\ nCalls' = nCalls + 1
    /\ windowResets' = IF WindowExpired(Breaker, clock)
                       THEN windowResets + 1 ELSE windowResets
    /\ invocations' = IF Rejects(WindowReset(Breaker, clock), clock)
                      THEN invocations ELSE invocations + 1

\* A call of the guarded function, other than by retry().
CallStart ==
    /\ CallStartPart
    /\ UNCHANGED <<rvars, cvars, awaited>>

\* Lines 250-264: the awaited operation resolves; the caller gets its result.
OpSucceedPart(c) ==
    /\ BagIn(c, calls)
    /\ Install(OnSuccess(Breaker))
    /\ calls' = calls (-) SetToBag({c})
    /\ streak' = 0
    /\ last' = [kind |-> "returned", error |-> "none", from |-> state]
    /\ logged' = IF state = "HALF_OPEN" /\ OnSuccess(Breaker).state = "CLOSED"
                 THEN <<ClosedLog>> ELSE <<>>
    /\ openedAt' = OpenedSince(OnSuccess(Breaker).state)
    /\ UNCHANGED <<config, clock, invocations, nCalls, nFailed, windowResets,
                   recovered>>

\* The operation of such a call resolves.
OpSucceed(c) ==
    /\ OpSucceedPart(c)
    /\ UNCHANGED <<rvars, cvars, awaited>>

\* Lines 266-280: the awaited operation rejects; its error is thrown on.
OpFailPart(c) ==
    /\ BagIn(c, calls)
    /\ Install(OnFailure(Breaker, c.now))
    /\ calls' = calls (-) SetToBag({c})
    /\ nFailed' = nFailed + 1
    /\ streak' = streak + 1
    /\ last' = [kind |-> "threw", error |-> "op_error", from |-> state]
    /\ logged' = IF Opens(state, failures + 1)
                 THEN <<OpenedLog(OnFailure(Breaker, c.now))>> ELSE <<>>
    /\ openedAt' = OpenedSince(OnFailure(Breaker, c.now).state)
    /\ UNCHANGED <<config, clock, invocations, nCalls, windowResets,
                   recovered>>

\* The operation of such a call rejects.
OpFail(c) ==
    /\ OpFailPart(c)
    /\ UNCHANGED <<rvars, cvars, awaited>>

----------------------------------------------------------------------------
(* Errors and JavaScript values. *)

\* A value of a field that may be missing, a number or a string.
Undefined == [type |-> "undefined", num |-> 0, str |-> ""]
Num(n) == [type |-> "number", num |-> n, str |-> ""]
Str(t) == [type |-> "string", num |-> 0, str |-> t]

\* JavaScript truthiness of such a value.
Truthy(v) ==
    \/ v.type = "number" /\ v.num # 0
    \/ v.type = "string" /\ v.str # ""

\* A string is the sequence of its characters; String.prototype.toLowerCase
\* and String.prototype.includes work on that.
UpperCase == <<"A", "B", "C", "D", "E", "F", "G", "H", "I", "J", "K", "L", "M",
               "N", "O", "P", "Q", "R", "S", "T", "U", "V", "W", "X", "Y", "Z">>
LowerCase == <<"a", "b", "c", "d", "e", "f", "g", "h", "i", "j", "k", "l", "m",
               "n", "o", "p", "q", "r", "s", "t", "u", "v", "w", "x", "y", "z">>

toLowerCase(text) ==
    [i \in 1..Len(text) |->
        IF \E j \in 1..Len(UpperCase) : UpperCase[j] = text[i]
        THEN LowerCase[CHOOSE j \in 1..Len(UpperCase) : UpperCase[j] = text[i]]
        ELSE text[i]]

includes(text, part) ==
    \E i \in 0..(Len(text) - Len(part)) :
        SubSeq(text, i + 1, i + Len(part)) = part

\* An error object: its code, its status and its message ("" when none).
Error(code, status, message) ==
    [code |-> code, status |-> status, message |-> message]

\* createMockGoogleApiError(code, message) sets error.code and error.status
\* to the code.
Unavailable503 == Error(Num(503), Num(503), <<"S", "e", "r", "v", "i", "c",
        "e", " ", "u", "n", "a", "v", "a", "i", "l", "a", "b", "l", "e">>)
BadRequest400 == Error(Num(400), Num(400), <<"B", "a", "d", " ", "r", "e",
        "q", "u", "e", "s", "t">>)
TooMany429 == Error(Undefined, Num(429), <<"T", "o", "o", " ", "M", "a", "n",
        "y", " ", "R", "e", "q", "u", "e", "s", "t", "s">>)
NotFound404 == Error(Undefined, Num(404), <<"N", "o", "t", " ", "f", "o",
        "u", "n", "d">>)
ConnReset == Error(Str("ECONNRESET"), Undefined, <<"N", "e", "t", "w", "o",
        "r", "k", " ", "e", "r", "r", "o", "r">>)
TimedOut == Error(Undefined, Undefined, <<"R", "e", "q", "u", "e", "s", "t",
        " ", "T", "i", "m", "e", "o", "u", "t">>)
TestError == Error(Undefined, Undefined, <<"T", "e", "s", "t", " ", "e", "r",
        "r", "o", "r">>)

\* What the wrapped operation may fail with.
OperationErrors == {Unavailable503, BadRequest400, TooMany429, NotFound404,
                    ConnReset, TimedOut, TestError}

\* The TypeError of reading `.message` of undefined (line 84).
NoLastError == Error(Undefined, Undefined, <<"C", "a", "n", "n", "o", "t",
        " ", "r", "e", "a", "d", " ", "p", "r", "o", "p", "e", "r", "t", "i",
        "e", "s", " ", "o", "f", " ", "u", "n", "d", "e", "f", "i", "n", "e",
        "d", " ", "(", "r", "e", "a", "d", "i", "n", "g", " ", "'", "m", "e",
        "s", "s", "a", "g", "e", "'", ")">>)

NoError == Error(Undefined, Undefined, <<>>)

\* A circuit-open error whose message tells of an unavailable service.
CircuitOpenErrorUnavailable ==
    Error(Undefined, Undefined,
        <<"S", "e", "r", "v", "i", "c", "e", " ", "u", "n", "a", "v",
          "a", "i", "l", "a", "b", "l", "e", " ", "-", " ", "c", "i",
          "r", "c", "u", "i", "t", " ", "b", "r", "e", "a", "k", "e",
          "r", " ", "i", "s", " ", "O", "P", "E", "N">>)

\* Line 245 of part_002: the error a call is thrown out with by an OPEN
\* breaker.
CircuitOpenError ==
    Error(Undefined, Undefined,
        <<"C", "i", "r", "c", "u", "i", "t", " ", "b", "r", "e", "a",
          "k", "e", "r", " ", "i", "s", " ", "O", "P", "E", "N", " ",
          "-", " ", "o", "p", "e", "r", "a", "t", "i", "o", "n", " ",
          "t", "e", "m", "p", "o", "r", "a", "r", "i", "l", "y", " ",
          "d", "i", "s", "a", "b", "l", "e", "d">>)

----------------------------------------------------------------------------
(* RetryUtility.isRetryable and calculateDelay, part_002 lines 91-137. *)

\* The list with 409 added to it.
retryableStatusCodesWide == {409, 429, 500, 502, 503, 504}

retryableStatusCodes == {429, 500, 502, 503, 504}

NetworkCodes == {"ECONNRESET", "ENOTFOUND", "ECONNREFUSED", "ETIMEDOUT"}

RetryableWords == {<<"t", "i", "m", "e", "o", "u", "t">>,
                   <<"n", "e", "t", "w", "o", "r", "k">>,
                   <<"c", "o", "n", "n", "e", "c", "t", "i", "o", "n">>,
                   <<"s", "e", "r", "v", "i", "c", "e", " ", "u", "n", "a",
        "v", "a", "i", "l", "a", "b", "l", "e">>,
                   <<"r", "a", "t", "e", " ", "l", "i", "m", "i", "t">>,
                   <<"q", "u", "o", "t", "a">>}

\* `list.includes(value)` for a list of numbers.
InCodes(v) == v.type = "number" /\ v.num \in retryableStatusCodes

\* isRetryable without `.toLowerCase()`.
isRetryableCaseSensitive(error) ==
    IF Truthy(error.code) /\ InCodes(error.code) THEN TRUE
    ELSE IF Truthy(error.status) /\ InCodes(error.status) THEN TRUE
    ELSE IF error.code.type = "string" /\ error.code.str \in NetworkCodes
         THEN TRUE
    ELSE IF Len(error.message) > 0
         THEN \E w \in RetryableWords : includes(error.message, w)
    ELSE FALSE

isRetryable(error) ==
    IF Truthy(error.code) /\ InCodes(error.code) THEN TRUE
    ELSE IF Truthy(error.status) /\ InCodes(error.status) THEN TRUE
    ELSE IF error.code.type = "string" /\ error.code.str \in NetworkCodes
         THEN TRUE
    ELSE IF Len(error.message) > 0
         THEN \E w \in RetryableWords : includes(toLowerCase(error.message), w)
    ELSE FALSE

\* Math.random() returns any number of [0, 1): the range is cut into
\* JitterSteps cells, cell k being the draws from k/JitterSteps to
\* (k+1)/JitterSteps, and a call of Math.random() draws a cell.
JitterSteps == 4

\* The jitter of a whole base delay at the ends of a cell is a whole number
\* of parts of 1/JitterUnit ms; delays are counted in these parts.
JitterUnit == 4 * JitterSteps

\* n milliseconds, in parts.
Ms(n) == n * JitterUnit

\* `Math.max(100, ...)`: minimum 100ms delay.
MinimumDelay == 100

Max(a, b) == IF a >= b THEN a ELSE b

\* Math.max written where Math.min is meant.
MinIsMax(a, b) == IF a >= b THEN a ELSE b

Min(a, b) == IF a <= b THEN a ELSE b

\* A delay known to lie between two numbers of parts, both included.
Between(a, b) == [from |-> a, upto |-> b]

\* A delay of exactly n parts.
Exactly(n) == Between(n, n)

\* Line 135-136, `baseDelay + jitter` when Math.random() is j/JitterSteps:
\* jitter = baseDelay * 0.25 * (j/JitterSteps - 0.5) * 2
\*        = baseDelay * (2j - JitterSteps) / (4 * JitterSteps) ms,
\* that is baseDelay * (2j - JitterSteps) parts: with baseDelay 100 and
\* Math.random() = 0.75 it is 112.5 ms, Ms(112) and half of Ms(1).
Jittered(baseDelay, j) == Ms(baseDelay) + baseDelay * (2 * j - JitterSteps)

\* calculateDelay without Math.max(100, ...).
calculateDelayNoFloor(baseDelay, cfg, k) ==
    IF ~cfg.jitter
    THEN Exactly(Ms(baseDelay))
    ELSE Between(Jittered(baseDelay, k), Jittered(baseDelay, k + 1))

\* calculateDelay(baseDelay, config) when Math.random() draws cell k: the
\* result grows with the draw, so that it lies between the results at the
\* two ends of the cell.
calculateDelay(baseDelay, cfg, k) ==
    IF ~cfg.jitter
    THEN Exactly(Ms(baseDelay))
    ELSE Between(Max(Ms(MinimumDelay), Jittered(baseDelay, k)),
                 Max(Ms(MinimumDelay), Jittered(baseDelay, k + 1)))

----------------------------------------------------------------------------
(* Logger.interpretGoogleApiError, src/utils/logger.js lines 134-228. *)

\* `error.code || error.status`
statusCode(error) == IF Truthy(error.code) THEN error.code ELSE error.status

\* Lines 149-195: the switch, which compares with ===.  The type and the
\* retryable flag afterwards.
StatusCase(v) ==
    IF v.type # "number" THEN [type |-> "UNKNOWN_ERROR", retryable |-> FALSE]
    ELSE IF v.num = 400 THEN [type |-> "BAD_REQUEST", retryable |-> FALSE]
    ELSE IF v.num = 401 THEN [type |-> "UNAUTHORIZED", retryable |-> FALSE]
    ELSE IF v.num = 403 THEN [type |-> "FORBIDDEN", retryable |-> FALSE]
    ELSE IF v.num = 404 THEN [type |-> "NOT_FOUND", retryable |-> FALSE]
    ELSE IF v.num = 409 THEN [type |-> "CONFLICT", retryable |-> FALSE]
    ELSE IF v.num = 429 THEN [type |-> "RATE_LIMITED", retryable |-> TRUE]
    ELSE IF v.num = 500
         THEN [type |-> "INTERNAL_SERVER_ERROR", retryable |-> TRUE]
    ELSE IF v.num \in {502, 503, 504}
         THEN [type |-> "SERVICE_UNAVAILABLE", retryable |-> TRUE]
    ELSE [type |-> "UNKNOWN_ERROR", retryable |-> FALSE]

\* Lines 199-224: the patterns looked for in the lower-cased message.
MessageCase(info, message) ==
    IF includes(message, <<"n", "o", "t", " ", "f", "o", "u", "n", "d">>)
    THEN [info EXCEPT !.type = "RESOURCE_NOT_FOUND"]
    ELSE IF includes(message, <<"a", "l", "r", "e", "a", "d", "y", " ", "e",
                                "x", "i", "s", "t", "s">>)
    THEN [info EXCEPT !.type = "RESOURCE_EXISTS"]
    ELSE IF includes(message, <<"i", "n", "v", "a", "l", "i", "d">>)
    THEN [info EXCEPT !.type = "INVALID_DATA"]
    ELSE IF \/ includes(message, <<"p", "e", "r", "m", "i", "s", "s", "i",
                                   "o", "n">>)
            \/ includes(message, <<"a", "c", "c", "e", "s", "s">>)
    THEN [info EXCEPT !.type = "ACCESS_DENIED"]
    ELSE IF \/ includes(message, <<"q", "u", "o", "t", "a">>)
            \/ includes(message, <<"l", "i", "m", "i", "t">>)
    THEN [info EXCEPT !.type = "QUOTA_EXCEEDED", !.retryable = TRUE]
    ELSE IF includes(message, <<"c", "l", "a", "s", "s", " ", "i", "d">>)
    THEN [info EXCEPT !.type = "MISSING_CLASS_ID"]
    ELSE info

interpretGoogleApiError(error) ==
    LET info == IF Truthy(statusCode(error))
                THEN StatusCase(statusCode(error))
                ELSE [type |-> "UNKNOWN_ERROR", retryable |-> FALSE]
    IN  IF Len(error.message) > 0
        THEN MessageCase(info, toLowerCase(error.message))
        ELSE info

----------------------------------------------------------------------------
(* RetryUtility.retry, part_002 lines 15-88. *)

InitialDelays == {80, 100, 1000}
MaxDelays == {400, 1600}

\* Line 6-10: this.defaultOptions.
defaultOptions == [maxAttempts |-> 3, initialDelay |-> 1000, maxDelay |-> 10000,
                   backoffFactor |-> 2, jitter |-> TRUE]

\* Line 16 with the options of the tests, { maxAttempts: 3, initialDelay: 100 }:
\* the fields they do not name are those of defaultOptions.
TestOptions == {[defaultOptions EXCEPT !.initialDelay = 100]}

\* The merged config: options that name every field, and those of the tests.
RetryConfigs ==
    [maxAttempts   : 0..MaxAttempts,
     initialDelay  : InitialDelays,
     maxDelay      : MaxDelays,
     backoffFactor : 1..MaxBackoff,
     jitter        : BOOLEAN]
    \cup TestOptions

\* Lines 214-216: the breaker's default config.
defaultBreakerConfig == [failureThreshold |-> 5, resetTimeout |-> 60000,
                         monitoringWindow |-> 300000]

\* isRetryable() is not being called.
NoInfo == [type |-> "none", retryable |-> FALSE]

ClassifyNotCalled ==
    subject = NoError /\ verdict = "none" /\ errorInfo = NoInfo

\* calculateDelay() is not being called.
DelayNotCalled ==
    /\ argDelay = 0
    /\ argJitter = FALSE
    /\ calculated = FALSE
    /\ actualDelay = Exactly(0)

\* No promise has settled that retry() has yet to resume from.
NotSettled == [kind |-> "none", error |-> NoError]

\* The ghost variables of a retry() call that has invoked nothing yet.
NothingDone ==
    /\ opCalls = 0
    /\ nWaits = 0
    /\ lastWait = Exactly(0)
    /\ first = [outcome |-> "none", error |-> NoError]
    /\ latest = NoError
    /\ raised = {}
    /\ resolved = 0
    /\ settled = 0
    /\ slept = 0
    /\ thrown = NoError
    /\ awaited = NotSettled

\* retry() is not being called.
RetryNotCalled ==
    /\ rconfig = defaultOptions
    /\ rpc = "idle"
    /\ attempt = 0
    /\ delay = 0
    /\ lastError = NoError
    /\ NothingDone

\* Lines 16-18: retry(operation, options) was called.
InitRetry ==
    /\ rconfig \in RetryConfigs
    /\ rpc = "loop"
    /\ attempt = 1
    /\ delay = rconfig.initialDelay
    /\ lastError = NoError
    /\ NothingDone
    /\ config = defaultBreakerConfig
    /\ NewBreaker
    /\ ClassifyNotCalled
    /\ DelayNotCalled

\* LoopContinues with the comparison written `<`.
LoopContinuesEarly(a, cfg) == a < cfg.maxAttempts

\* Line 20: the loop condition.
LoopContinues(a, cfg) == a <= cfg.maxAttempts

\* Line 63: don't wait after the last attempt.
IsLastAttempt(a, cfg) == a = cfg.maxAttempts

\* The error of a `throw new Error('Retry exhausted')`.
RetryExhaustedError ==
    Error(Undefined, Undefined,
          <<"R", "e", "t", "r", "y", " ", "e", "x", "h", "a", "u", "s", "t",
            "e", "d">>)

\* Exhausted that throws an error of its own instead of lastError.
ExhaustedWraps ==
    /\ rpc' = "threw"
    /\ thrown' = RetryExhaustedError

\* Lines 81-87: log 'Retry Exhausted' with lastError.message, throw lastError.
Exhausted ==
    /\ rpc' = "threw"
    /\ thrown' = IF lastError' = NoError THEN NoLastError ELSE lastError'

\* Lines 20-29: the loop goes on and the operation is invoked.
RetryInvokePart ==
    /\ rpc = "loop"
    /\ LoopContinues(attempt, rconfig)
    /\ rpc' = "await"
    /\ opCalls' = opCalls + 1
    /\ UNCHANGED <<rconfig, attempt, delay, lastError, nWaits, lastWait,
                   first, latest, raised, resolved, settled, slept, thrown>>

\* retry() invokes an operation that is not guarded by the breaker.
RetryInvoke ==
    /\ RetryInvokePart
    /\ UNCHANGED <<bvars, cvars, awaited>>

\* Lines 20, 81-87: the loop condition fails at the head of the loop.
RetryExhausted ==
    /\ rpc = "loop"
    /\ ~LoopContinues(attempt, rconfig)
    /\ UNCHANGED lastError
    /\ Exhausted
    /\ UNCHANGED <<rconfig, attempt, delay, opCalls, nWaits, lastWait,
                   first, latest, raised, resolved, settled, slept>>
    /\ UNCHANGED <<bvars, cvars, awaited>>

\* Lines 29-39: the operation resolves and retry() returns its result.
OpResolvesPart ==
    /\ rpc = "await"
    /\ rpc' = "returned"
    /\ first' = IF first.outcome = "none"
                THEN [outcome |-> "resolved", error |-> NoError] ELSE first
    /\ resolved' = resolved + 1
    /\ settled' = settled + 1
    /\ UNCHANGED <<rconfig, attempt, delay, lastError, opCalls, nWaits,
                   lastWait, latest, raised, slept, thrown>>

\* OpResolves without `return result`: the loop goes on.
OpResolvesGoesOn ==
    /\ rpc = "await"
    /\ rpc' = "loop"
    /\ attempt' = attempt + 1
    /\ first' = IF first.outcome = "none"
                THEN [outcome |-> "resolved", error |-> NoError] ELSE first
    /\ resolved' = resolved + 1
    /\ settled' = settled + 1
    /\ UNCHANGED <<rconfig, delay, lastError, opCalls, nWaits,
                   lastWait, latest, raised, slept, thrown>>
    /\ UNCHANGED <<bvars, cvars, awaited>>

\* Such an operation resolves.
OpResolves ==
    /\ OpResolvesPart
    /\ UNCHANGED <<bvars, cvars, awaited>>

\* GivesUp that never gives up.
GivesUpNever(error) == FALSE

\* Line 53: the error is thrown on at once.
GivesUp(error) == ~isRetryable(error)

\* Lines 41-76: the operation rejects with error; retry() throws it on, or
\* leaves the loop, or starts to sleep for the calculated delay.
OpRejectsPart(error, k) ==
    /\ rpc = "await"
    /\ lastError' = error
    /\ first' = IF first.outcome = "none"
                THEN [outcome |-> "rejected", error |-> error] ELSE first
    /\ latest' = error
    /\ raised' = raised \cup {error}
    /\ settled' = settled + 1
    /\ IF GivesUp(error)
       THEN /\ rpc' = "threw"
            /\ thrown' = error
            /\ UNCHANGED <<nWaits, lastWait>>
       ELSE IF IsLastAttempt(attempt, rconfig)
       THEN /\ Exhausted
            /\ UNCHANGED <<nWaits, lastWait>>
       ELSE /\ rpc' = "sleep"
            /\ nWaits' = nWaits + 1
            /\ lastWait' = calculateDelay(delay, rconfig, k)
            /\ UNCHANGED thrown
    /\ UNCHANGED <<rconfig, attempt, delay, opCalls, resolved, slept>>

\* OpRejects with `this.sleep(actualDelay)` not awaited: the next attempt
\* starts at once.
OpRejectsNoAwait(error, k) ==
    /\ rpc = "await"
    /\ lastError' = error
    /\ first' = IF first.outcome = "none"
                THEN [outcome |-> "rejected", error |-> error] ELSE first
    /\ latest' = error
    /\ raised' = raised \cup {error}
    /\ settled' = settled + 1
    /\ IF GivesUp(error)
       THEN /\ rpc' = "threw"
            /\ thrown' = error
            /\ UNCHANGED <<nWaits, lastWait, attempt, delay>>
       ELSE IF IsLastAttempt(attempt, rconfig)
       THEN /\ Exhausted
            /\ UNCHANGED <<nWaits, lastWait, attempt, delay>>
       ELSE /\ rpc' = "loop"
            /\ nWaits' = nWaits + 1
            /\ lastWait' = calculateDelay(delay, rconfig, k)
            /\ delay' = Min(delay * rconfig.backoffFactor, rconfig.maxDelay)
            /\ attempt' = attempt + 1
            /\ UNCHANGED thrown
    /\ UNCHANGED <<rconfig, opCalls, resolved, slept>>
    /\ UNCHANGED <<bvars, cvars, awaited>>

\* Such an operation rejects with error.
OpRejects(error, k) ==
    /\ OpRejectsPart(error, k)
    /\ UNCHANGED <<bvars, cvars, awaited>>

\* WakeUp that counts two attempts.
WakeUpSkips ==
    /\ rpc = "sleep"
    /\ delay' = Min(delay * rconfig.backoffFactor, rconfig.maxDelay)
    /\ attempt' = attempt + 2
    /\ rpc' = "loop"
    /\ slept' = slept + 1
    /\ UNCHANGED <<rconfig, lastError, opCalls, nWaits, lastWait, first,
                   latest, raised, resolved, settled, thrown>>
    /\ UNCHANGED <<bvars, cvars, awaited>>

\* WakeUp without the cap of Math.min(..., config.maxDelay).
WakeUpUncapped ==
    /\ rpc = "sleep"
    /\ delay' = delay * rconfig.backoffFactor
    /\ attempt' = attempt + 1
    /\ rpc' = "loop"
    /\ slept' = slept + 1
    /\ UNCHANGED <<rconfig, lastError, opCalls, nWaits, lastWait, first,
                   latest, raised, resolved, settled, thrown>>
    /\ UNCHANGED <<bvars, cvars, awaited>>

\* Lines 76-77, 20: the sleep is over; back off and count the attempt.
WakeUp ==
    /\ rpc = "sleep"
    /\ delay' = Min(delay * rconfig.backoffFactor, rconfig.maxDelay)
    /\ attempt' = attempt + 1
    /\ rpc' = "loop"
    /\ slept' = slept + 1
    /\ UNCHANGED <<rconfig, lastError, opCalls, nWaits, lastWait, first,
                   latest, raised, resolved, settled, thrown>>
    /\ UNCHANGED <<bvars, cvars, awaited>>

----------------------------------------------------------------------------
(* The specifications. *)

Init ==
    /\ InitBreaker
    /\ RetryNotCalled
    /\ ClassifyNotCalled
    /\ DelayNotCalled

Next ==
    \/ Tick
    \/ CallStart
    \/ \E c \in BagToSet(calls) : OpSucceed(c)
    \/ \E c \in BagToSet(calls) : OpFail(c)

Spec == Init /\ [][Next]_vars

----------------------------------------------------------------------------
(* The breaker for as long as calls arrive: time and the number of calls are
   not bounded, and the wrapped operation may stop failing. *)

\* A timestamp one tick further back, and no further back than time 1.  With
\* Date.now() at MaxTime that is MaxTime - 1 ticks ago, more than any
\* resetTimeout and any monitoringWindow, so that every test of lines 229 and
\* 237 comes out as it does for the true timestamp.
Older(t) == IF t = NULL THEN NULL ELSE Max(1, t - 1)

\* One more call, window reset or invocation.  Calls arrive without end
\* here, and what has been counted up to MaxCalls is not counted further.
Counted(n) == IF n < MaxCalls THEN n + 1 ELSE n

\* Time passes.  Once Date.now() has reached MaxTime it is kept there and
\* every timestamp is moved back instead.
TimePasses ==
    /\ IF clock < MaxTime
       THEN /\ clock' = clock + 1
            /\ UNCHANGED <<lastFailureTime, openedAt, calls>>
       ELSE /\ clock' = clock
            /\ lastFailureTime' = Older(lastFailureTime)
            /\ openedAt' = Older(openedAt)
            /\ calls' = BagOfAll(LAMBDA c : [c EXCEPT !.now = Older(c.now)],
                                 calls)
    /\ UNCHANGED <<config, state, failures, successes, invocations, nCalls,
                   nFailed, streak, windowResets, last, logged, recovered>>
    /\ UNCHANGED <<rvars, cvars, awaited>>

\* Lines 225-250: one more call of the guarded function, made when the call
\* before it has ended, and counted as CallStartPart counts it.
Arrive ==
    /\ calls = EmptyBag
    /\ Admission
    /\ nCalls' = Counted(nCalls)
    /\ windowResets' = IF WindowExpired(Breaker, clock)
                       THEN Counted(windowResets) ELSE windowResets
    /\ invocations' = IF Rejects(WindowReset(Breaker, clock), clock)
                      THEN invocations ELSE Counted(invocations)
    /\ UNCHANGED <<rvars, cvars, awaited>>

\* Lines 266-280: the operation rejects, which it does at most MaxThreshold
\* times (enough to open the breaker) and not after it has recovered.
FailBeforeRecovery(c) ==
    /\ ~recovered
    /\ nFailed < MaxThreshold
    /\ OpFail(c)

\* The wrapped operation stops failing: from here on every invocation of it
\* resolves.
Recover ==
    /\ ~recovered
    /\ recovered' = TRUE
    /\ UNCHANGED <<config, state, failures, lastFailureTime, successes, clock,
                   calls, invocations, nCalls, nFailed, streak, windowResets,
                   last, logged, openedAt>>
    /\ UNCHANGED <<rvars, cvars, awaited>>

\* The operation of some suspended call resolves.
SomeOpSucceeds == \E c \in BagToSet(calls) : OpSucceed(c)

NextRecovery ==
    \/ TimePasses
    \/ Arrive
    \/ SomeOpSucceeds
    \/ \E c \in BagToSet(calls) : FailBeforeRecovery(c)
    \/ Recover

\* Time keeps advancing, calls keep arriving and every invocation settles.
SpecRecovery ==
    /\ Init
    /\ [][NextRecovery]_vars
    /\ WF_vars(TimePasses)
    /\ SF_vars(Arrive)
    /\ WF_vars(SomeOpSucceeds)

NextRetry ==
    \/ RetryInvoke
    \/ RetryExhausted
    \/ OpResolves
    \/ \E error \in OperationErrors, k \in 0..(JitterSteps - 1) :
          OpRejects(error, k)
    \/ WakeUp

SpecRetry == InitRetry /\ [][NextRetry]_vars

\* Every invocation of the operation settles and every timer of sleep()
\* fires; the synchronous parts of retry() run to completion.
SpecRetryFair == SpecRetry /\ WF_vars(NextRetry)

----------------------------------------------------------------------------
(* retry(guarded, options) where guarded = createCircuitBreaker(operation,
   config): the loop of retry() calls the guarded function. *)

\* The options retry() is called with here: maxAttempts and jitter vary.
GuardedRetryConfigs ==
    [maxAttempts   : 0..MaxAttempts,
     initialDelay  : {100},
     maxDelay      : {100},
     backoffFactor : {1},
     jitter        : BOOLEAN]

\* What the wrapped operation may fail with here: a retryable error and a
\* non-retryable one.
GuardedErrors == {Unavailable503, BadRequest400}

InitGuarded ==
    /\ rconfig \in GuardedRetryConfigs
    /\ rpc = "loop"
    /\ attempt = 1
    /\ delay = rconfig.initialDelay
    /\ lastError = NoError
    /\ NothingDone
    /\ InitBreaker
    /\ ClassifyNotCalled
    /\ DelayNotCalled

\* part_002 lines 29 and 225-250: retry() calls the guarded function, which
\* runs up to its own await or throws the circuit-open error.
GuardedInvoke ==
    /\ RetryInvokePart
    /\ CallStartPart
    /\ UNCHANGED <<cvars, awaited>>

\* Lines 245 and 41-76: the promise of the guarded function, rejected with
\* the circuit-open error, settles the await of retry().
GuardedThrownOut(k) ==
    /\ last.kind = "rejected"
    /\ calls = EmptyBag
    /\ OpRejectsPart(CircuitOpenError, k)
    /\ UNCHANGED <<bvars, cvars, awaited>>

\* Lines 250-264: the wrapped operation resolves and the guarded function
\* returns its result; retry() has not resumed yet.
GuardedOpResolves(c) ==
    /\ OpSucceedPart(c)
    /\ awaited' = [kind |-> "resolved", error |-> NoError]
    /\ UNCHANGED <<rvars, cvars>>

\* Lines 266-280: the wrapped operation rejects with error and the guarded
\* function throws it on; retry() has not resumed yet.
GuardedOpRejects(c, error) ==
    /\ OpFailPart(c)
    /\ awaited' = [kind |-> "rejected", error |-> error]
    /\ UNCHANGED <<rvars, cvars>>

\* Lines 29-39: retry() resumes from its await with the result.
GuardedResolves ==
    /\ awaited.kind = "resolved"
    /\ OpResolvesPart
    /\ awaited' = NotSettled
    /\ UNCHANGED <<bvars, cvars>>

\* Lines 41-76: retry() resumes from its await in the catch block.
GuardedRejects(k) ==
    /\ awaited.kind = "rejected"
    /\ OpRejectsPart(awaited.error, k)
    /\ awaited' = NotSettled
    /\ UNCHANGED <<bvars, cvars>>

NextGuarded ==
    \/ Tick
    \/ GuardedInvoke
    \/ \E k \in 0..(JitterSteps - 1) : GuardedThrownOut(k)
    \/ \E c \in BagToSet(calls) : GuardedOpResolves(c)
    \/ \E c \in BagToSet(calls), error \in GuardedErrors :
          GuardedOpRejects(c, error)
    \/ GuardedResolves
    \/ \E k \in 0..(JitterSteps - 1) : GuardedRejects(k)
    \/ WakeUp
    \/ RetryExhausted

SpecGuarded == InitGuarded /\ [][NextGuarded]_vars

----------------------------------------------------------------------------
(* isRetryable and calculateDelay called on their own, as the tests of
   part_000 lines 677-771 call them. *)

MockMessage ==
    <<"M", "o", "c", "k", " ", "G", "o", "o", "g", "l", "e", " ",
      "A", "P", "I", " ", "E", "r", "r", "o", "r">>
NetworkError ==
    <<"N", "E", "T", "W", "O", "R", "K", " ", "e", "r", "r", "o", "r">>
ConnectionRefused ==
    <<"c", "o", "n", "n", "e", "c", "t", "i", "o", "n", " ", "r",
      "e", "f", "u", "s", "e", "d">>
RateLimited ==
    <<"R", "a", "t", "e", " ", "l", "i", "m", "i", "t", " ", "e",
      "x", "c", "e", "e", "d", "e", "d">>
QuotaExceeded ==
    <<"Q", "u", "o", "t", "a", " ", "e", "x", "c", "e", "e", "d",
      "e", "d", " ", "f", "o", "r", " ", "q", "u", "o", "t", "a",
      " ", "m", "e", "t", "r", "i", "c">>
TimeOut ==
    <<"T", "i", "m", "e", " ", "o", "u", "t">>
Unavailable ==
    <<"U", "n", "a", "v", "a", "i", "l", "a", "b", "l", "e">>
RateLimitHyphen ==
    <<"r", "a", "t", "e", "-", "l", "i", "m", "i", "t">>

\* The messages of the errors passed to isRetryable.
MessageInputs ==
    {NoError.message, MockMessage, Unavailable503.message,
     BadRequest400.message, NotFound404.message, TimedOut.message,
     TestError.message, NetworkError, ConnectionRefused, RateLimited,
     QuotaExceeded, TimeOut, Unavailable, RateLimitHyphen}

\* Their codes: none, HTTP status codes as numbers or strings, codes of
\* Node's network errors.
CodeInputs ==
    {Undefined}
      \cup {Num(n) : n \in {0, 200, 400, 401, 403, 404, 409, 429, 500, 502,
                            503, 504}}
      \cup {Str(t) : t \in NetworkCodes \cup {"EPIPE", "503"}}

\* Their statuses.
StatusInputs ==
    {Undefined} \cup {Num(n) : n \in {400, 401, 403, 404, 409, 429, 500, 503}}

ErrorInputs ==
    {Error(c, st, m) : c \in CodeInputs, st \in StatusInputs,
                       m \in MessageInputs}

\* isRetryable(error) is called with one of the errors.
InitClassify ==
    /\ subject \in ErrorInputs
    /\ verdict = "none"
    /\ errorInfo = NoInfo
    /\ DelayNotCalled
    /\ config = defaultBreakerConfig
    /\ NewBreaker
    /\ RetryNotCalled

\* Lines 91-126: it returns.
Classify ==
    /\ verdict = "none"
    /\ verdict' = IF isRetryable(subject) THEN "true" ELSE "false"
    /\ UNCHANGED <<subject, errorInfo, argDelay, argJitter, calculated,
                   actualDelay>>
    /\ UNCHANGED <<bvars, rvars, awaited>>

\* logger.js lines 134-228: the error handler interprets the same error.
Interpret ==
    /\ errorInfo = NoInfo
    /\ errorInfo' = interpretGoogleApiError(subject)
    /\ UNCHANGED <<subject, verdict, argDelay, argJitter, calculated,
                   actualDelay>>
    /\ UNCHANGED <<bvars, rvars, awaited>>

NextClassify == Classify \/ Interpret

SpecClassify == InitClassify /\ [][NextClassify]_vars

\* The base delays passed to calculateDelay.
BaseDelays == 0..MaxBaseDelay

\* calculateDelay(baseDelay, config) is called.
InitDelay ==
    /\ argDelay \in BaseDelays
    /\ argJitter \in BOOLEAN
    /\ calculated = FALSE
    /\ actualDelay = Exactly(0)
    /\ ClassifyNotCalled
    /\ config = defaultBreakerConfig
    /\ NewBreaker
    /\ RetryNotCalled

\* Lines 129-137: it returns, Math.random() having drawn cell k.
CalculateDelay(k) ==
    /\ ~calculated
    /\ calculated' = TRUE
    /\ actualDelay' = calculateDelay(argDelay, [jitter |-> argJitter], k)
    /\ UNCHANGED <<subject, verdict, errorInfo, argDelay, argJitter>>
    /\ UNCHANGED <<bvars, rvars, awaited>>

NextDelay == \E k \in 0..(JitterSteps - 1) : CalculateDelay(k)

SpecDelay == InitDelay /\ [][NextDelay]_vars

----------------------------------------------------------------------------
(* Steps of the breaker, as the properties below name them. *)

\* A call of the guarded function is made in this step.
Started == nCalls' = nCalls + 1

\* The call made in this step is thrown out with the circuit-open error.
Rejected ==
    /\ Started
    /\ last'.kind = "rejected"
    /\ last'.error = "circuit_open"
    /\ invocations' = invocations
    /\ calls' = calls

\* The call made in this step is passed on to the wrapped operation.
Invoked ==
    /\ Started
    /\ last'.kind = "invoked"
    /\ invocations' = invocations + 1
    /\ BagCardinality(calls') = BagCardinality(calls) + 1

\* The operation of the suspended call c resolves / rejects in this step.
Returned(c) ==
    /\ BagIn(c, calls)
    /\ calls' = calls (-) SetToBag({c})
    /\ last'.kind = "returned"

Threw(c) ==
    /\ BagIn(c, calls)
    /\ calls' = calls (-) SetToBag({c})
    /\ last'.kind = "threw"

\* Time since the recorded failure, as a call made now computes it.
SinceFailure == clock - lastFailureTime

\* The breaker is fresh but for failureThreshold calls, each of which was
\* passed on to the operation and failed.
ThresholdFailures ==
    nCalls = config.failureThreshold /\ nFailed = config.failureThreshold

----------------------------------------------------------------------------
(* C1 *)

\* C1, as stated: after failureThreshold failing calls on a fresh breaker the
\* breaker is OPEN, and the next call, made before resetTimeout has elapsed,
\* is rejected with the circuit-open error without invoking the operation,
\* whose invocation count stays failureThreshold.
C1_AsStated ==
    [][ /\ ThresholdFailures' => state' = "OPEN"
        /\ (ThresholdFailures /\ Started
              /\ SinceFailure < config.resetTimeout)
           => (Rejected /\ invocations' = config.failureThreshold) ]_vars

\* C1, amended: the same, for calls none of which is made more than
\* monitoringWindow after the failure recorded last (such a call takes the
\* monitoring-window branch, which closes the breaker and clears the count).
C1_OpensAtThreshold ==
    [][ /\ (ThresholdFailures' /\ windowResets' = 0)
           => (state' = "OPEN" /\ failures' = config.failureThreshold)
        /\ (ThresholdFailures /\ windowResets = 0 /\ Started
              /\ SinceFailure < config.resetTimeout
              /\ SinceFailure <= config.monitoringWindow)
           => (Rejected /\ invocations' = config.failureThreshold) ]_vars

\* failureThreshold = 2 failures opened the circuit and a third call was
\* rejected, the operation having run twice.
C1_Witness ==
    /\ config.failureThreshold = 2
    /\ nCalls = 3 /\ nFailed = 2 /\ windowResets = 0
    /\ last.kind = "rejected" /\ state = "OPEN" /\ invocations = 2

----------------------------------------------------------------------------
(* C2 *)

\* C2, as stated: a call that succeeds while the breaker is CLOSED leaves the
\* failure count at 0, and the circuit opens from CLOSED only on
\* failureThreshold failures in a row.
C2_AsStated ==
    [][ \A c \in BagToSet(calls) :
          /\ (Returned(c) /\ state = "CLOSED") => failures' = 0
          /\ (Threw(c) /\ state = "CLOSED" /\ state' = "OPEN")
             => streak' >= config.failureThreshold ]_vars

\* C2, amended: a call that succeeds while the breaker is CLOSED leaves the
\* failure count and the state as they were; a failure that brings the count
\* to failureThreshold opens the circuit whether or not successful calls
\* separate the failures counted; the count goes down, to 0, only when a
\* HALF_OPEN breaker closes on a success or in the monitoring-window reset.
C2_SuccessKeepsCount ==
    [][ /\ \A c \in BagToSet(calls) :
             /\ (Returned(c) /\ state = "CLOSED")
                => (failures' = failures /\ state' = "CLOSED")
             /\ (Threw(c) /\ state = "CLOSED"
                   /\ failures + 1 >= config.failureThreshold)
                => state' = "OPEN"
        /\ failures' < failures
           => /\ failures' = 0
              /\ \/ Started /\ SinceFailure > config.monitoringWindow
                 \/ /\ last'.kind = "returned"
                    /\ state = "HALF_OPEN" /\ state' = "CLOSED" ]_vars

\* The circuit opened from CLOSED on two failures with a success in between.
C2_Witness ==
    /\ last.kind = "threw" /\ last.from = "CLOSED" /\ state = "OPEN"
    /\ config.failureThreshold = 2 /\ failures = 2
    /\ streak = 1 /\ windowResets = 0

----------------------------------------------------------------------------
(* C3 *)

\* C3, as stated: a call on an OPEN breaker is let through as a probe, the
\* breaker going HALF_OPEN with halfOpenSuccesses = 0, when the time since
\* lastFailureTime is >= resetTimeout, and is rejected when it is less.
C3_AsStated ==
    [][ (Started /\ state = "OPEN")
        => IF SinceFailure >= config.resetTimeout
           THEN Invoked /\ state' = "HALF_OPEN" /\ successes' = 0
           ELSE Rejected ]_vars

\* C3, amended: a call on an OPEN breaker made no more than monitoringWindow
\* after lastFailureTime is let through as a probe, the breaker going
\* HALF_OPEN with halfOpenSuccesses = 0, when the time since lastFailureTime
\* is > resetTimeout, and is rejected when it is <= resetTimeout.
C3_HalfOpenAfterTimeout ==
    [][ (Started /\ state = "OPEN"
           /\ SinceFailure <= config.monitoringWindow)
        => IF SinceFailure > config.resetTimeout
           THEN Invoked /\ state' = "HALF_OPEN" /\ successes' = 0
           ELSE Rejected /\ state' = "OPEN" ]_vars

\* A probe was let through one millisecond past resetTimeout.
C3_Witness ==
    /\ last.kind = "invoked" /\ last.from = "OPEN"
    /\ state = "HALF_OPEN" /\ successes = 0
    /\ \E c \in BagToSet(calls) :
          /\ c.admitted = "HALF_OPEN"
          /\ c.now = clock
          /\ c.now - lastFailureTime = config.resetTimeout + 1

----------------------------------------------------------------------------
(* C4 *)

\* C4: while the breaker is HALF_OPEN and a probe is suspended in the
\* operation, a further call (made before the monitoring window has passed)
\* is rejected with the circuit-open error and the operation is not invoked.
C4_SingleProbe ==
    [][ (Started /\ state = "HALF_OPEN"
           /\ SinceFailure <= config.monitoringWindow
           /\ \E c \in BagToSet(calls) : c.admitted = "HALF_OPEN")
        => Rejected ]_vars

----------------------------------------------------------------------------
(* C5 *)

\* C5: a call that succeeds while the breaker is HALF_OPEN adds one to
\* halfOpenSuccesses; the breaker stays HALF_OPEN when that makes 1 and goes
\* CLOSED with the failure count at 0 exactly when it makes 2.
C5_ClosesOnSecondSuccess ==
    [][ \A c \in BagToSet(calls) :
          (Returned(c) /\ state = "HALF_OPEN")
          => /\ successes' = successes + 1
             /\ IF successes' = 2
                THEN state' = "CLOSED" /\ failures' = 0
                ELSE /\ successes' = 1 /\ state' = "HALF_OPEN"
                     /\ failures' = failures ]_vars

\* A second half-open success closed the circuit.
C5_Witness ==
    /\ last.kind = "returned" /\ last.from = "HALF_OPEN"
    /\ state = "CLOSED" /\ successes = 2 /\ failures = 0 /\ nFailed > 0

----------------------------------------------------------------------------
(* C6 *)

\* C6: a call that fails while the breaker is HALF_OPEN sends it back to
\* OPEN at once, records the call's timestamp as lastFailureTime, and the
\* operation's error reaches the caller.
C6_HalfOpenFailureReopens ==
    [][ \A c \in BagToSet(calls) :
          (Threw(c) /\ state = "HALF_OPEN")
          => /\ state' = "OPEN"
             /\ lastFailureTime' = c.now
             /\ failures' = failures + 1
             /\ last'.error = "op_error" ]_vars

\* A probe failed after one half-open success and the circuit is OPEN again.
C6_Witness ==
    /\ last.kind = "threw" /\ last.from = "HALF_OPEN"
    /\ state = "OPEN" /\ successes = 1

----------------------------------------------------------------------------
(* C7 *)

\* C7: a call thrown out with the circuit-open error found the breaker OPEN
\* and leaves state, failure count, lastFailureTime and halfOpenSuccesses as
\* they were; the operation is not invoked and its error is not what the
\* caller gets.
C7_RejectionChangesNothing ==
    [][ (Started /\ last'.kind = "rejected")
        => /\ state = "OPEN"
           /\ UNCHANGED <<state, failures, lastFailureTime, successes>>
           /\ UNCHANGED <<invocations, calls, nFailed>>
           /\ last'.error = "circuit_open" ]_vars

\* A call was rejected by an OPEN breaker.
C7_Witness ==
    /\ last.kind = "rejected" /\ last.error = "circuit_open"
    /\ state = "OPEN" /\ failures >= config.failureThreshold
    /\ invocations < nCalls

----------------------------------------------------------------------------
(* C8 *)

\* C8: a call made more than monitoringWindow after the recorded failure, in
\* whatever state, sets the failure count and halfOpenSuccesses to 0 and the
\* state to CLOSED and is passed on to the operation.
C8_WindowResetAdmits ==
    [][ (Started /\ lastFailureTime # NULL
           /\ SinceFailure > config.monitoringWindow)
        => /\ Invoked
           /\ failures' = 0 /\ successes' = 0 /\ state' = "CLOSED"
           /\ \E c \in BagToSet(calls') :
                 c.now = clock /\ c.admitted = "CLOSED" ]_vars

\* An OPEN breaker was closed by the window reset, its cooldown not over.
C8_Witness ==
    /\ last.kind = "invoked" /\ last.from = "OPEN"
    /\ state = "CLOSED" /\ failures = 0
    /\ SinceFailure > config.monitoringWindow
    /\ SinceFailure <= config.resetTimeout

----------------------------------------------------------------------------
(* C9 *)

\* Errors that are retryable by their status code, their network code or
\* their message, and errors that are not.
RetryableSamples == {Unavailable503, TooMany429, ConnReset, TimedOut}
NonRetryableSamples == {BadRequest400, NotFound404, TestError}

\* C9: with maxAttempts = N >= 1 and an operation that fails with a retryable
\* error every time, retry() never returns, invokes the operation at most N
\* times, and throws exactly when the N-th invocation has failed; what it
\* throws is the error of that invocation.
C9_FailsAfterMaxAttempts ==
    (rconfig.maxAttempts >= 1 /\ resolved = 0
       /\ raised \subseteq RetryableSamples)
    => /\ opCalls <= rconfig.maxAttempts
       /\ rpc # "returned"
       /\ rpc = "threw" => (opCalls = rconfig.maxAttempts /\ thrown = latest)
       /\ (opCalls = rconfig.maxAttempts /\ rpc # "await") => rpc = "threw"

\* Three attempts failed with retryable errors, two sleeps between them, and
\* the third error was thrown.
C9_Witness ==
    /\ rpc = "threw" /\ rconfig.maxAttempts = 3 /\ opCalls = 3 /\ nWaits = 2
    /\ resolved = 0 /\ raised = {Unavailable503, TimedOut}
    /\ first.error = Unavailable503 /\ thrown = TimedOut

----------------------------------------------------------------------------
(* C10 *)

\* C10: with maxAttempts >= 1, once the first invocation has failed with a
\* non-retryable error retry() has thrown that error, the operation was
\* invoked once and no sleep was awaited.
C10_NonRetryableOnce ==
    (rconfig.maxAttempts >= 1 /\ first.outcome = "rejected"
       /\ first.error \in NonRetryableSamples)
    => /\ rpc = "threw"
       /\ thrown = first.error
       /\ opCalls = 1 /\ attempt = 1
       /\ nWaits = 0

\* A 400 error was thrown after one invocation although maxAttempts is 3.
C10_Witness ==
    /\ rpc = "threw" /\ rconfig.maxAttempts = 3
    /\ first.error = BadRequest400 /\ thrown = BadRequest400
    /\ opCalls = 1 /\ nWaits = 0

----------------------------------------------------------------------------
(* C11 *)

\* C11: once an invocation of the operation has succeeded retry() has
\* returned: it was the only success, the operation was invoked as many
\* times as the number of that attempt, every earlier attempt was followed by
\* one sleep and none followed the success; an operation that succeeds the
\* first time is invoked once.
C11_ReturnsFirstSuccess ==
    /\ resolved > 0
       => /\ rpc = "returned" /\ resolved = 1
          /\ opCalls = attempt /\ settled = opCalls
          /\ nWaits = opCalls - 1 /\ slept = nWaits
    /\ rpc = "returned" => resolved = 1
    /\ first.outcome = "resolved" => (opCalls = 1 /\ nWaits = 0)

\* The operation failed with a 503 and then succeeded: two invocations.
C11_Witness ==
    /\ rpc = "returned" /\ opCalls = 2 /\ attempt = 2 /\ nWaits = 1
    /\ raised = {Unavailable503} /\ rconfig.maxAttempts = 3

----------------------------------------------------------------------------
(* C12 *)

RECURSIVE Power(_, _)
Power(b, e) == IF e = 0 THEN 1 ELSE b * Power(b, e - 1)

\* The configs of the data model: maxDelay >= initialDelay.
ValidDelays == rconfig.maxDelay >= rconfig.initialDelay

\* The wait after attempt k, as C12 gives it.
BackoffDelay(k) ==
    Min(rconfig.initialDelay * Power(rconfig.backoffFactor, k - 1),
        rconfig.maxDelay)

\* The wait after attempt k, as the code gives it: the first wait is
\* initialDelay, which Math.min(..., maxDelay) has not capped yet.
WaitAfter(k) == IF k = 1 THEN rconfig.initialDelay ELSE BackoffDelay(k)

\* C12 as stated: with jitter disabled the sleep that follows attempt k lasts
\* min(initialDelay * backoffFactor^(k-1), maxDelay), and a retry() call that
\* has ended after m >= 1 attempts has slept m-1 times, never after its
\* final attempt.
C12_AsStated ==
    [][ ~rconfig.jitter
        => /\ nWaits' = nWaits + 1
              => /\ nWaits' = attempt
                 /\ lastWait' = Exactly(Ms(BackoffDelay(attempt)))
           /\ (rpc' \in {"returned", "threw"} /\ opCalls' >= 1)
              => (nWaits' = opCalls' - 1 /\ slept' = nWaits') ]_vars

\* C12: with jitter disabled the sleep that follows attempt 1 lasts
\* initialDelay, whatever maxDelay is, and the sleep that follows attempt
\* k >= 2 lasts min(initialDelay * backoffFactor^(k-1), maxDelay); a retry()
\* call that has ended after m >= 1 attempts has slept m-1 times, never
\* after its final attempt.
C12_BackoffWithoutJitter ==
    [][ ~rconfig.jitter
        => /\ nWaits' = nWaits + 1
              => /\ nWaits' = attempt
                 /\ lastWait' = Exactly(Ms(WaitAfter(attempt)))
           /\ (rpc' \in {"returned", "threw"} /\ opCalls' >= 1)
              => (nWaits' = opCalls' - 1 /\ slept' = nWaits') ]_vars

\* maxAttempts=3, initialDelay=1000, maxDelay=400, backoffFactor=2, no
\* jitter, two 503 failures and a success: three invocations; the first wait
\* was the uncapped 1000, the second 400.
C12_Witness ==
    /\ rconfig.maxAttempts = 3 /\ rconfig.initialDelay = 1000
    /\ rconfig.maxDelay = 400
    /\ rconfig.backoffFactor = 2 /\ ~rconfig.jitter
    /\ rpc = "returned" /\ raised = {Unavailable503}
    /\ opCalls = 3 /\ nWaits = 2
    /\ lastWait = Exactly(Ms(400))

----------------------------------------------------------------------------
(* C13 *)

\* C13: the operation is invoked only from the head of the loop, when every
\* earlier invocation has settled (as a failure) and the sleep after each of
\* them is over; at most one invocation is unsettled at any time.
C13_Sequential ==
    [][ /\ opCalls' = opCalls + 1
           => /\ rpc = "loop" /\ resolved = 0
              /\ settled = opCalls /\ nWaits = opCalls /\ slept = opCalls
        /\ opCalls' - settled' \in {0, 1} ]_vars

\* The third attempt is in flight; two have settled and two sleeps are over.
C13_Witness ==
    /\ rpc = "await" /\ opCalls = 3 /\ settled = 2 /\ slept = 2 /\ nWaits = 2

----------------------------------------------------------------------------
(* C14 *)

\* C14: with maxAttempts >= 1, retry() throws only the error of the latest
\* failed invocation (an error of the operation), with no invocation having
\* succeeded; it has thrown as soon as an invocation failed non-retryably or
\* the maxAttempts-th invocation failed; it returns only after a success.
C14_NeverSwallows ==
    rconfig.maxAttempts >= 1
    => /\ rpc = "threw"
          => /\ resolved = 0 /\ settled = opCalls /\ opCalls >= 1
             /\ thrown = latest /\ thrown \in raised
             /\ thrown \in OperationErrors
       /\ rpc = "returned" => resolved = 1
       /\ (resolved = 0 /\ opCalls >= 1 /\ settled = opCalls
             /\ (latest \in NonRetryableSamples
                   \/ opCalls = rconfig.maxAttempts))
          => (rpc = "threw" /\ thrown = latest)

\* A 503 was retried and the 400 of the second attempt was thrown.
C14_Witness ==
    /\ rpc = "threw" /\ rconfig.maxAttempts = 3 /\ opCalls = 2
    /\ first.error = Unavailable503 /\ thrown = BadRequest400

----------------------------------------------------------------------------
(* C15 *)

\* The status codes of the test of part_000 lines 687-694.
NonRetryableCodes == {400, 401, 403, 404, 409}

\* The messages of MessageInputs that contain one of the six words when
\* case is ignored, picked by hand.
MessagesWithWord ==
    {Unavailable503.message, TimedOut.message, NetworkError,
     ConnectionRefused, RateLimited, QuotaExceeded}

\* The error's status code is one of codes: it has a code or a status, and
\* each of the two that it has is a number of codes.
StatusCodeIn(error, codes) ==
    /\ error.code = Undefined
         \/ (error.code.type = "number" /\ error.code.num \in codes)
    /\ error.status = Undefined
         \/ (error.status.type = "number" /\ error.status.num \in codes)
    /\ error.code # Undefined \/ error.status # Undefined

\* C15 as stated: isRetryable returns false for every error whose status
\* code is in {400, 401, 403, 404, 409}, whatever its message.
C15_AsStated ==
    (verdict # "none" /\ StatusCodeIn(subject, NonRetryableCodes))
    => verdict = "false"

\* C15: for an error whose status code is in {400, 401, 403, 404, 409}
\* isRetryable returns false unless the message contains one of the six
\* words (case ignored), and true if it does.
C15_NonRetryableCodes ==
    (verdict # "none" /\ StatusCodeIn(subject, NonRetryableCodes))
    => (verdict = IF subject.message \in MessagesWithWord
                  THEN "true" ELSE "false")

\* createMockGoogleApiError(404) was found non-retryable.
C15_Witness ==
    /\ subject = Error(Num(404), Num(404), MockMessage)
    /\ verdict = "false"

----------------------------------------------------------------------------
(* C16 *)

\* The predicate of C16, written out.
C16_Predicate(error) ==
    \/ error.code.type = "number"
         /\ error.code.num \in {429, 500, 502, 503, 504}
    \/ error.status.type = "number"
         /\ error.status.num \in {429, 500, 502, 503, 504}
    \/ error.code.type = "string"
         /\ error.code.str
              \in {"ECONNRESET", "ENOTFOUND", "ECONNREFUSED", "ETIMEDOUT"}
    \/ error.message \in MessagesWithWord

\* C16: isRetryable(error) is true exactly when the code or the status is
\* one of 429, 500, 502, 503, 504, or the code is one of the four network
\* codes, or the message contains one of the six words (case ignored).
C16_RetryableIff ==
    verdict # "none" => (verdict = "true" <=> C16_Predicate(subject))

\* An error with nothing but the message 'NETWORK error' is retryable.
C16_Witness ==
    /\ subject = Error(Undefined, Undefined, NetworkError)
    /\ verdict = "true"

----------------------------------------------------------------------------
(* C17 *)

\* v parts is a result C17 allows with jitter for the base delay passed.
C17_Result(v) ==
    /\ \/ /\ v = Ms(100)
          /\ 4 * Ms(argDelay) - Ms(argDelay) <= 4 * Ms(100)
       \/ /\ 4 * v >= 4 * Ms(argDelay) - Ms(argDelay)
          /\ 4 * v <= 4 * Ms(argDelay) + Ms(argDelay)
    /\ v >= Ms(100)
    /\ argDelay = 1000 => (Ms(750) <= v /\ v <= Ms(1250))

\* C17: calculateDelay returns baseDelay when jitter is off; when it is on
\* it returns max(100, baseDelay + offset) for an offset of at most a quarter
\* of baseDelay either way (the result is 100 and baseDelay less a quarter
\* is at most 100, or the result is within a quarter of baseDelay), hence
\* at least 100 and, for 1000, a value of 750..1250: so is every delay of
\* the range the result lies in.
C17_Jitter ==
    calculated
    => IF ~argJitter
       THEN actualDelay = Exactly(Ms(argDelay))
       ELSE /\ actualDelay.from <= actualDelay.upto
            /\ C17_Result(actualDelay.from)
            /\ C17_Result(actualDelay.upto)

\* calculateDelay(1000, {jitter: true}) returned 750 or little more.
C17_Witness ==
    calculated /\ argJitter /\ argDelay = 1000
    /\ actualDelay.from = Ms(750)

----------------------------------------------------------------------------
(* C18 *)

\* C18 as stated: with maxDelay >= initialDelay no wait between two attempts
\* exceeds maxDelay, with or without jitter.
C18_AsStated ==
    [][ (ValidDelays /\ nWaits' = nWaits + 1)
        => lastWait'.upto <= Ms(rconfig.maxDelay) ]_vars

\* C18: with maxDelay >= initialDelay the base delay never exceeds maxDelay;
\* a wait without jitter does not exceed maxDelay, and a wait with jitter
\* does not exceed max(100, 1.25 * maxDelay).
C18_WaitBounded ==
    [][ ValidDelays
        => /\ delay' <= rconfig.maxDelay
           /\ nWaits' = nWaits + 1
              => IF rconfig.jitter
                 THEN 4 * lastWait'.upto
                        <= Max(Ms(400), 5 * Ms(rconfig.maxDelay))
                 ELSE lastWait'.upto <= Ms(rconfig.maxDelay) ]_vars

\* The second wait of a call with maxDelay 1600 lasted 1800 or more.
C18_Witness ==
    /\ rconfig.maxDelay = 1600 /\ rconfig.initialDelay = 1000
    /\ rconfig.jitter /\ nWaits = 2 /\ lastWait.from = Ms(1800)

----------------------------------------------------------------------------
(* C19 *)

\* C19: in every reachable state, state = OPEN implies that lastFailureTime
\* is set (not null).
C19_OpenHasFailureTime == state = "OPEN" => lastFailureTime # NULL

\* The breaker is OPEN after a failure at the present time.
C19_Witness ==
    state = "OPEN" /\ lastFailureTime = clock /\ last.kind = "threw"

----------------------------------------------------------------------------
(* C20 *)

\* C20: however the calls interleave at their awaits, each invocation of the
\* operation that fails adds exactly one to failures, whatever failed or
\* succeeded while it was suspended, and leaves the breaker OPEN whenever the
\* count has then reached failureThreshold.
C20_NoLostUpdate ==
    [][ \A c \in BagToSet(calls) :
          Threw(c)
          => /\ failures' = failures + 1
             /\ nFailed' = nFailed + 1
             /\ failures' >= config.failureThreshold => state' = "OPEN" ]_vars

\* Two calls overlapped with failureThreshold 1: the first failure opened
\* the breaker and the second one, arriving at the OPEN breaker, was counted
\* too.
C20_Witness ==
    /\ config.failureThreshold = 1 /\ windowResets = 0
    /\ nCalls = 2 /\ invocations = 2 /\ nFailed = 2
    /\ last.kind = "threw" /\ last.from = "OPEN"
    /\ state = "OPEN" /\ failures = 2

----------------------------------------------------------------------------
(* C24 *)

\* C24: successes is incremented only when a call returns that was let
\* through while the breaker was HALF_OPEN; a call let through while CLOSED
\* that returns while the breaker is HALF_OPEN does not count.
C24_OnlyProbesCount ==
    [][ \A c \in BagToSet(calls) :
          (Returned(c) /\ successes' = successes + 1)
          => c.admitted = "HALF_OPEN" ]_vars

----------------------------------------------------------------------------
(* C25 *)

\* C25: between the steps of the breaker (failureThreshold >= 1) the state
\* is CLOSED exactly when failures < failureThreshold.
C25_ClosedIffBelowThreshold ==
    state = "CLOSED" <=> failures < config.failureThreshold

\* A HALF_OPEN breaker with failureThreshold 2 has closed on the second
\* success while another call is suspended.
C25_Witness ==
    /\ config.failureThreshold = 2 /\ state = "CLOSED" /\ failures = 0
    /\ last.kind = "returned" /\ last.from = "HALF_OPEN"
    /\ nFailed >= 2

----------------------------------------------------------------------------
(* C26 *)

\* C26: lastFailureTime never decreases, however the calls interleave.
C26_FailureTimeMonotone == [][lastFailureTime' >= lastFailureTime]_vars

----------------------------------------------------------------------------
(* C29 *)

\* C29: retry() throws only after it has invoked the operation at least
\* once, whatever maxAttempts is, and only an error that the operation has
\* raised.
C29_ThrowsOperationError ==
    rpc = "threw" => (opCalls >= 1 /\ thrown \in raised)

----------------------------------------------------------------------------
(* C21 *)

\* C21: every step that changes the state of the breaker (opening,
\* half-opening, closing, closing by the monitoring-window reset) logs an
\* event that carries the failure count and the threshold.
C21_TransitionsLogged ==
    [][ state' # state
        => \E i \in 1..Len(logged') :
              /\ {"failures", "threshold"} \subseteq DOMAIN logged'[i].meta
              /\ logged'[i].meta.threshold = config.failureThreshold ]_vars

----------------------------------------------------------------------------
(* C23 *)

\* C23: once the breaker has become OPEN at time T (the time the failure was
\* observed), and while T + monitoringWindow has not passed, no call is passed
\* on to the operation before T + resetTimeout.
C23_CooldownFromFailure ==
    [][ (state = "OPEN" /\ Invoked
           /\ clock <= openedAt + config.monitoringWindow)
        => clock >= openedAt + config.resetTimeout ]_vars

----------------------------------------------------------------------------
(* C30 *)

\* C30: for every error the retryable flag of interpretGoogleApiError equals
\* what isRetryable returns.
C30_FlagAgrees ==
    (verdict # "none" /\ errorInfo # NoInfo)
    => (errorInfo.retryable <=> verdict = "true")

----------------------------------------------------------------------------
(* C22 *)

\* retry() has returned or thrown.
RetryEnded == rpc \in {"returned", "threw"}

\* C22: with maxAttempts >= 1, when every invocation settles retry() ends;
\* the operation is never invoked more than maxAttempts times, and when
\* retry() has ended it was invoked at least once, every invocation but the
\* last failed retryably, and the last one succeeded, failed non-retryably
\* or was the maxAttempts-th.
C22_Terminates ==
    /\ [](rconfig.maxAttempts >= 1
          => /\ opCalls <= rconfig.maxAttempts
             /\ RetryEnded
                => /\ opCalls >= 1 /\ settled = opCalls
                   /\ \/ resolved = 1
                      \/ latest \in NonRetryableSamples
                      \/ opCalls = rconfig.maxAttempts
                   /\ \A e \in raised \cap NonRetryableSamples :
                         e = latest /\ resolved = 0 /\ thrown = e)
    /\ (rconfig.maxAttempts >= 1 ~> RetryEnded)

\* The second of three attempts failed with a 404 after a connection reset:
\* retry() ended after two invocations.
C22_Witness ==
    /\ rconfig.maxAttempts = 3 /\ rpc = "threw" /\ opCalls = 2
    /\ first.error = ConnReset /\ latest = NotFound404

----------------------------------------------------------------------------
(* C28 *)

\* C28: when the breaker throws out a call made by retry() with the
\* circuit-open error, isRetryable finds that error non-retryable: retry()
\* throws it when the attempt settles, without a wait, and the wrapped
\* operation is not invoked again in that retry() call.
C28_CircuitOpenNotRetried ==
    /\ ~isRetryable(CircuitOpenError)
    /\ [][ /\ (rpc = "await" /\ last.kind = "rejected" /\ clock' = clock)
              => /\ rpc' = "threw" /\ thrown' = CircuitOpenError
                 /\ nWaits' = nWaits /\ invocations' = invocations
           /\ thrown = CircuitOpenError
              => /\ rpc' = "threw" /\ thrown' = thrown
                 /\ opCalls' = opCalls /\ nCalls' = nCalls
                 /\ invocations' = invocations /\ nWaits' = nWaits ]_vars

\* The first attempt failed with a 503 and opened the breaker; the second
\* attempt was thrown out and retry() threw the circuit-open error.
C28_Witness ==
    /\ rpc = "threw" /\ thrown = CircuitOpenError
    /\ first.error = Unavailable503 /\ rconfig.maxAttempts = 3
    /\ opCalls = 2 /\ invocations = 1 /\ nWaits = 1 /\ state = "OPEN"

----------------------------------------------------------------------------
(* C27 *)

\* A call made now would be thrown out with the circuit-open error.
WouldReject == Rejects(WindowReset(Breaker, clock), clock)

\* C27: once the wrapped operation has stopped failing, with calls arriving
\* and time advancing for ever, the breaker, OPEN or not, is eventually
\* CLOSED for good, and from then on no call is thrown out.
C27_Recovers == recovered ~> [](state = "CLOSED" /\ ~WouldReject)

\* After the operation recovered the probe and one more call succeeded and
\* closed the breaker, which had failed before.
C27_Witness ==
    /\ recovered /\ state = "CLOSED" /\ failures = 0 /\ nFailed >= 1
    /\ last.kind = "returned" /\ last.from = "HALF_OPEN" /\ successes = 2

====
